---- MODULE Spec2Model ----
(***************************************************************************)
(* Model of the download cache of libscoop (crates/core/src/cache.rs):     *)
(* CacheEntry (one cached file, parsed from its file name) and             *)
(* CacheManager (scan, filter, clean and stage-for-write over one working  *)
(* directory).                                                             *)
(*                                                                         *)
(* Strings are sequences of one-character strings, so that splitting,      *)
(* prefix tests, trimming and the naming pattern are computed character    *)
(* by character as the code computes them.                                 *)
(***************************************************************************)
EXTENDS Naturals, Sequences, FiniteSets

VARIABLES
    dir,    \* the working directory: file name -> content (a sequence of chunks)
    dl,     \* the downloader using stage_path: [pc, target, attempt, written]
    last,   \* the call that has just returned and what it returned:
            \* [op, arg, pre, rd, res], or NoCall once the caller has moved on
    held,   \* the entry a caller has kept from a scan: [e, len], or NoEntry
    rs,     \* the scans that run step by step:
            \* reader -> [pc, op, arg, pre, todo, acc]
    cl      \* the clean that runs step by step: [pc, arg, pre, items, next]

vars == <<dir, dl, last, held, rs, cl>>

----------------------------------------------------------------------------
(* Bounds of the model *)

\* files drawn into the directory a scan specification starts from
MaxScanFiles == 2

\* files the directory holds when the manager is constructed
MaxSeedFiles == 2

\* directory entries one read_dir may fail to list
MaxListErrors == 1

\* download attempts (calls of stage_path by the downloader)
MaxAttempts == 2

\* chunks that make up one complete download
Chunks == 2

\* files in the directory that concurrent scans and a clean work on
MaxConcFiles == 3

----------------------------------------------------------------------------
(* Characters and strings *)

Lower == {"a","b","c","d","e","f","g","h","i","j","k","l","m",
          "n","o","p","q","r","s","t","u","v","w","x","y","z"}
Upper == {"A","B","C","D","E","F","G","H","I","J","K","L","M",
          "N","O","P","Q","R","S","T","U","V","W","X","Y","Z"}
Digit == {"0","1","2","3","4","5","6","7","8","9"}

AlphaNum(c) == c \in Lower \/ c \in Upper \/ c \in Digit

\* [a-zA-Z0-9-_.] : the class of the regex group "app"
AppClass(c) == AlphaNum(c) \/ c \in {"-", "_", "."}

\* [a-zA-Z0-9-.] : the class of the regex group "version"
VersionClass(c) == AlphaNum(c) \/ c \in {"-", "."}

Range(s) == {s[i] : i \in 1..Len(s)}

\* a unit of an OsString that is no Unicode text: an unpaired surrogate
\* (Windows) or a byte that is not UTF-8 (Unix)
BadUnit == "<80>"

\* OsStr::to_str and OsString::into_string succeed on s
IsUnicode(s) == \A i \in 1..Len(s) : s[i] # BadUnit

\* str::starts_with
StartsWith(s, p) ==
    /\ Len(p) <= Len(s)
    /\ \A i \in 1..Len(p) : s[i] = p[i]

\* str::ends_with, for a one-character pattern
EndsWith(s, c) == Len(s) > 0 /\ s[Len(s)] = c

\* str::trim_end_matches, for a one-character pattern: every trailing
\* occurrence is removed
RECURSIVE TrimEndMatches(_, _)
TrimEndMatches(s, c) ==
    IF Len(s) > 0 /\ s[Len(s)] = c
    THEN TrimEndMatches(SubSeq(s, 1, Len(s) - 1), c)
    ELSE s

\* str::split, for a one-character separator: the pieces between the
\* separators, empty pieces included
RECURSIVE SplitFrom(_, _, _, _)
SplitFrom(s, c, i, cur) ==
    IF i > Len(s) THEN <<cur>>
    ELSE IF s[i] = c THEN <<cur>> \o SplitFrom(s, c, i + 1, <<>>)
    ELSE SplitFrom(s, c, i + 1, Append(cur, s[i]))

Split(s, c) == SplitFrom(s, c, 1, <<>>)

\* is_match of a pattern without the second separator,
\* (?P<app>[a-zA-Z0-9-_.]+)#(?P<version>[a-zA-Z0-9-.]+)
IsMatchOneHash(s) ==
    \E h1 \in 2..(Len(s) - 1) :
        /\ s[h1] = "#"
        /\ AppClass(s[h1 - 1])
        /\ VersionClass(s[h1 + 1])

\* Regex::is_match of  (?P<app>[a-zA-Z0-9-_.]+)#(?P<version>[a-zA-Z0-9-.]+)#(?P<url>.*)
\* The pattern carries no anchors, so it matches when it matches some
\* substring: a '#' preceded by a character of the app class, then one or
\* more characters of the version class, then a '#'.
IsMatch(s) ==
    \E h1 \in 2..Len(s) :
        /\ s[h1] = "#"
        /\ AppClass(s[h1 - 1])
        /\ \E h2 \in (h1 + 2)..Len(s) :
            /\ s[h2] = "#"
            /\ \A k \in (h1 + 1)..(h2 - 1) : VersionClass(s[k])

----------------------------------------------------------------------------
(* Results *)

Ok(v) == [kind |-> "ok", val |-> v]
IoErr == [kind |-> "err", val |-> <<>>]
Panic == [kind |-> "panic", val |-> <<>>]
None == [kind |-> "none", val |-> <<>>]

----------------------------------------------------------------------------
(* CacheEntry *)

\* CacheEntry::new with a wrong index base: pieces 1 and 2 are taken as the
\* name and the version
CacheEntryNewShifted(fname) ==
    LET meta == Split(fname, "#") IN
    IF Len(meta) < 3 THEN Panic
    ELSE Ok([entry |-> fname, app_name |-> meta[2],
             version |-> meta[3], file_name |-> meta[3]])

\* CacheEntry::new: meta[0], meta[1], meta[2] of the split file name;
\* indexing past the end panics, and so does into_string().unwrap() on a
\* name that is not Unicode
CacheEntryNew(fname) ==
    LET meta == Split(fname, "#") IN
    IF ~IsUnicode(fname) THEN Panic
    ELSE IF Len(meta) < 3 THEN Panic
    ELSE Ok([entry |-> fname, app_name |-> meta[1],
             version |-> meta[2], file_name |-> meta[3]])

\* the builds of the standard library: DirEntry::metadata answers from the
\* data of the listing on Windows and queries the file on Unix
Platforms == {"windows", "unix"}

\* CacheEntry::size of kept entry h, a DirEntry listed when its file held
\* h.len chunks: metadata().unwrap().len(), a failed query panicking
Size(d, h, platform) ==
    IF platform = "windows" THEN Ok(<<h.len>>)
    ELSE IF h.e.entry \in DOMAIN d THEN Ok(<<Len(d[h.e.entry])>>)
    ELSE Panic

\* CacheEntry::app_name, version and file_name: clones of the fields
Accessors(h) == <<h.e.app_name, h.e.version, h.e.file_name>>

----------------------------------------------------------------------------
(* The file system *)

\* the sequences that enumerate set S once each
Perms(S) ==
    {f \in [1..Cardinality(S) -> S] : \A i, j \in 1..Cardinality(S) : f[i] = f[j] => i = j}

\* Path::read_dir on directory d: it fails as a whole, or yields the files
\* of d in one of the orders, each as Ok(DirEntry) or, for at most maxErr
\* of them, as an error
ReadDirs(d, orders, maxErr) ==
    {[ok |-> FALSE, items |-> <<>>]} \cup
    {[ok |-> TRUE,
      items |-> [i \in 1..Cardinality(DOMAIN d) |-> [name |-> o[i], ok |-> o[i] \notin bad]]] :
        o \in orders, bad \in {B \in SUBSET (DOMAIN d) : Cardinality(B) <= maxErr}}

\* the directory without the files named in S
Without(d, S) == [n \in (DOMAIN d) \ S |-> d[n]]

\* the directory with file n holding content c
WithFile(d, n, c) == [m \in (DOMAIN d) \cup {n} |-> IF m = n THEN c ELSE d[m]]

NoFiles == [n \in {} |-> <<>>]

----------------------------------------------------------------------------
(* CacheManager: scans *)

\* the constructor applied to each element, a panic of any aborting all
MapNew(names) ==
    IF \E i \in 1..Len(names) : CacheEntryNew(names[i]).kind # "ok" THEN Panic
    ELSE Ok([i \in 1..Len(names) |-> CacheEntryNew(names[i]).val])

\* CacheManager::get_all; the filter calls to_str().unwrap() on the name of
\* every entry that was listed, which panics on a name that is not Unicode
GetAll(rd) ==
    IF ~rd.ok THEN IoErr
    ELSE LET listed == SelectSeq(rd.items, LAMBDA it : it.ok)
             matched == SelectSeq(listed, LAMBDA it : IsMatch(it.name))
         IN  IF \E i \in 1..Len(listed) : ~IsUnicode(listed[i].name) THEN Panic
             ELSE MapNew([i \in 1..Len(matched) |-> matched[i].name])

\* CacheManager::get that takes the pattern literally: no wildcard
GetLiteral(rd, pattern) ==
    LET all == GetAll(rd) IN
    IF all.kind # "ok" THEN all
    ELSE Ok(SelectSeq(all.val, LAMBDA ce : StartsWith(ce.app_name, pattern)))

\* CacheManager::get that keeps the entries whose name holds the query
\* anywhere
GetContains(rd, pattern) ==
    LET all == GetAll(rd)
        query == IF EndsWith(pattern, "*") THEN TrimEndMatches(pattern, "*") ELSE pattern
        Holds(s) == \E i \in 0..Len(s) : StartsWith(SubSeq(s, i + 1, Len(s)), query)
    IN  IF pattern = <<"*">> THEN all
        ELSE IF all.kind # "ok" THEN all
        ELSE Ok(SelectSeq(all.val, LAMBDA ce : Holds(ce.app_name)))

\* CacheManager::get that strips one trailing '*' only (strip_suffix)
GetStripsOne(rd, pattern) ==
    LET all == GetAll(rd)
        query == IF EndsWith(pattern, "*") THEN SubSeq(pattern, 1, Len(pattern) - 1)
                 ELSE pattern
    IN  IF pattern = <<"*">> THEN all
        ELSE IF all.kind # "ok" THEN all
        ELSE Ok(SelectSeq(all.val, LAMBDA ce : StartsWith(ce.app_name, query)))

\* CacheManager::get that returns nothing for the empty pattern
GetEmptyMatchesNone(rd, pattern) ==
    LET all == GetAll(rd)
        query == IF EndsWith(pattern, "*") THEN TrimEndMatches(pattern, "*") ELSE pattern
    IN  IF pattern = <<"*">> THEN all
        ELSE IF all.kind # "ok" THEN all
        ELSE IF pattern = <<>> THEN Ok(<<>>)
        ELSE Ok(SelectSeq(all.val, LAMBDA ce : StartsWith(ce.app_name, query)))

\* CacheManager::get
Get(rd, pattern) ==
    LET all == GetAll(rd)
        query == IF EndsWith(pattern, "*") THEN TrimEndMatches(pattern, "*") ELSE pattern
    IN  IF pattern = <<"*">> THEN all
        ELSE IF all.kind # "ok" THEN all
        ELSE Ok(SelectSeq(all.val, LAMBDA ce : StartsWith(ce.app_name, query)))


----------------------------------------------------------------------------
(* CacheManager: clean and create *)

\* the directory the manager was constructed with
WorkingDir == <<"c", "a", "c", "h", "e">>

\* the suffix of the temporary path
DownloadSuffix == <<".", "d", "o", "w", "n", "l", "o", "a", "d">>

\* PathBuf::join of a directory and a plain file name
Join(wd, filename) == <<wd, filename>>

\* the file name of the sibling temporary path: the suffix is pushed onto
\* the whole path string, so onto its last component
TmpName(filename) == filename \o DownloadSuffix

\* crate::fs::empty_dir: the directory is left in place and holds nothing;
\* when it fails, what it had removed so far stays removed
EmptyDir(d, out) ==
    IF out.ok THEN [res |-> Ok(<<>>), dir |-> NoFiles]
    ELSE [res |-> IoErr, dir |-> Without(d, out.gone)]

\* the outcomes empty_dir can have on directory d
EmptyDirOutcomes(d) ==
    {[ok |-> TRUE, gone |-> DOMAIN d]} \cup
    {[ok |-> FALSE, gone |-> S] : S \in (SUBSET (DOMAIN d)) \ {DOMAIN d}}

\* the loop of clean that goes on after a failed removal and reports the
\* failure at the end
RemoveEachContinues(d, items, failAt) ==
    LET gone == {items[i].entry : i \in (1..Len(items)) \ {failAt}}
    IN  [res |-> IF failAt \in 1..Len(items) THEN IoErr ELSE Ok(<<>>),
         dir |-> Without(d, gone)]

\* the loop of clean: remove_file on each item in turn, the failAt-th
\* removal failing (0: none fails) and ending the loop with its error
RemoveEach(d, items, failAt) ==
    LET n == IF failAt \in 1..Len(items) THEN failAt - 1 ELSE Len(items)
        gone == {items[i].entry : i \in 1..n}
    IN  [res |-> IF failAt \in 1..Len(items) THEN IoErr ELSE Ok(<<>>),
         dir |-> Without(d, gone)]

\* CacheManager::clean that takes the empty pattern for a full wipe too
CleanWipesOnEmpty(d, rd, pattern, failAt, out) ==
    IF pattern = <<"*">> \/ pattern = <<>> THEN EmptyDir(d, out)
    ELSE LET items == Get(rd, pattern) IN
         IF items.kind # "ok" THEN [res |-> items, dir |-> d]
         ELSE RemoveEach(d, items.val, failAt)

\* CacheManager::clean that never delegates to clean_all
CleanFilteredOnly(d, rd, pattern, failAt, out) ==
    LET items == Get(rd, pattern) IN
    IF items.kind # "ok" THEN [res |-> items, dir |-> d]
    ELSE RemoveEach(d, items.val, failAt)

\* CacheManager::clean (clean_all for "*")
Clean(d, rd, pattern, failAt, out) ==
    IF pattern = <<"*">> THEN EmptyDir(d, out)
    ELSE LET items == Get(rd, pattern) IN
         IF items.kind # "ok" THEN [res |-> items, dir |-> d]
         ELSE RemoveEach(d, items.val, failAt)

\* CacheManager::create that leaves a file at the temporary path in place
CreateKeepsTmp(d, filename, fault) ==
    IF filename \in DOMAIN d /\ fault = "final" THEN [res |-> Panic, dir |-> d]
    ELSE [res |-> Ok(Join(WorkingDir, filename)), dir |-> Without(d, {filename})]

\* CacheManager::create that leaves a file at the final path in place
CreateKeepsFinal(d, filename, fault) ==
    IF TmpName(filename) \in DOMAIN d /\ fault = "tmp" THEN [res |-> Panic, dir |-> d]
    ELSE [res |-> Ok(Join(WorkingDir, filename)), dir |-> Without(d, {TmpName(filename)})]

\* CacheManager::create; fault names the remove_file that fails, if any
\* ("final", "tmp" or "none"), and a failed removal panics (unwrap)
Create(d, filename, fault) ==
    IF filename \in DOMAIN d /\ fault = "final" THEN [res |-> Panic, dir |-> d]
    ELSE LET d1 == Without(d, {filename}) IN
         IF TmpName(filename) \in DOMAIN d1 /\ fault = "tmp"
         THEN [res |-> Panic, dir |-> d1]
         ELSE [res |-> Ok(Join(WorkingDir, filename)),
               dir |-> Without(d1, {TmpName(filename)})]

----------------------------------------------------------------------------
(* File names, patterns and contents the model draws from *)

fA == <<"a", "#", "1", "#", "x">>
fATmp == <<"a", "#", "1", "#", "x", ".", "d", "o", "w", "n", "l", "o", "a", "d">>
fAB == <<"a", "b", "#", "2", "#", "y">>
fABTmp == <<"a", "b", "#", "2", "#", "y", ".", "d", "o", "w", "n", "l", "o", "a", "d">>
fUpper == <<"A", "#", "1", "#", "x">>
fUnderVer == <<"a", "#", "1", "_", "0", "#", "x">>
fFour == <<"a", "#", "1", "#", "b", "#", "c">>
fJunk == <<"!", "a", "#", "1", "#", "x">>
fOneHash == <<"a", "#", "1">>
fReadme == <<"r", "e", "a", "d", "m", "e">>
fBad == <<BadUnit, "#", "1", "#", "x">>

\* the file names of the model, in rank order
NameOrder ==
    <<fJunk, fUpper, fA, fFour, fATmp, fUnderVer, fAB, fABTmp,
              fOneHash, fReadme, fBad>>

\* the names a scanned directory is drawn from
ScanNames == {fJunk, fUpper, fA, fFour, fUnderVer, fAB, fOneHash, fReadme, fBad}

\* the files of S in rank order
Ascending(S) == SelectSeq(NameOrder, LAMBDA n : n \in S)

\* the listing of d with no error, in rank order
FullListing(d) ==
    [ok |-> TRUE,
     items |-> [i \in 1..Cardinality(DOMAIN d) |->
                   [name |-> Ascending(DOMAIN d)[i], ok |-> TRUE]]]

\* prefixes that do not end in '*'
Prefixes == {<<>>, <<"a">>, <<"a", "b">>, <<"A">>, <<"!", "a">>}

\* the patterns the scans are given
ScanPatterns ==
    Prefixes \cup {p \o <<"*">> : p \in Prefixes}
        \cup {<<"*", "*">>, <<"a", "*", "*">>, <<"*", "a">>}

\* the patterns the stateful specification cleans and filters with
CleanPatterns == {<<>>, <<"*", "*">>, <<"a", "b">>}

\* the file names the downloader stages
StageNames == {fA, fAB}

\* a file written whole before the manager was constructed
Done0 == [i \in 1..Chunks |-> 0]

\* a file whose writing stopped after the first chunk
Part0 == <<0>>

\* the files a directory may hold when the manager is constructed
SeedContent(n) == IF n = fATmp THEN Part0 ELSE Done0

SeedNames == {fA, fATmp, fAB, fReadme}

\* the directories over the names of S that hold at most max files
Dirs(S, max) ==
    {[n \in T |-> SeedContent(n)] : T \in {U \in SUBSET S : Cardinality(U) <= max}}

\* a content is a complete download when one attempt wrote all its chunks
Complete(c) == Len(c) = Chunks /\ \A i \in 1..Len(c) : c[i] = c[1]

NoRd == [ok |-> FALSE, items |-> <<>>]

Idle == [pc |-> "idle", target |-> <<>>, attempt |-> 0, written |-> 0]

\* no entry is kept
NoEntry == [e |-> <<>>, len |-> 0]

\* the processes that scan step by step
Readers == {"r1", "r2"}

\* the scans they run
ReaderCalls == {[op |-> "get_all", arg |-> <<>>], [op |-> "get", arg |-> <<"a">>]}

\* the names of the directory they scan and the patterns the concurrent
\* clean is given
ConcNames == {fUpper, fA, fAB, fReadme}

ConcPatterns == {<<"a">>, <<"A">>}

\* a scan that has not started
IdleReader ==
    [pc |-> "idle", op |-> "none", arg |-> <<>>, pre |-> NoFiles, todo |-> <<>>, acc |-> <<>>]

\* a clean that has not started
IdleCleaner == [pc |-> "idle", arg |-> <<>>, pre |-> NoFiles, items |-> <<>>, next |-> 1]

----------------------------------------------------------------------------
(* Operations *)

Done(op, arg, rd, res) == [op |-> op, arg |-> arg, pre |-> dir, rd |-> rd, res |-> res]

\* no call has just returned
NoCall == [op |-> "none", arg |-> <<>>, pre |-> NoFiles, rd |-> NoRd, res |-> None]

\* scan_all
ScanAllOp(rd) ==
    /\ last = NoCall
    /\ last' = Done("get_all", <<>>, rd, GetAll(rd))
    /\ UNCHANGED <<dir, dl, held, rs, cl>>

\* scan_filtered(p)
GetOp(p, rd) ==
    /\ last = NoCall
    /\ last' = Done("get", p, rd, Get(rd, p))
    /\ UNCHANGED <<dir, dl, held, rs, cl>>

\* the constructor on the directory entry of file n
NewOp(n) ==
    /\ last = NoCall
    /\ n \in DOMAIN dir
    /\ last' = Done("new", n, NoRd, CacheEntryNew(n))
    /\ UNCHANGED <<dir, dl, held, rs, cl>>

\* clean(p); rd is what read_dir yields if the call lists the directory,
\* failAt the removal that fails, out what empty_dir does if it is called.
\* clean("*") takes no listing, and none is recorded for it.
CleanOp(p, rd, failAt, out) ==
    /\ last = NoCall
    /\ LET r == Clean(dir, rd, p, failAt, out) IN
        /\ dir' = r.dir
        /\ last' = Done("clean", p, IF p = <<"*">> THEN NoRd ELSE rd, r.res)
    /\ UNCHANGED <<dl, held, rs, cl>>

\* the downloader starts an attempt: stage_path(f)
StageOp(f, fault) ==
    /\ last = NoCall
    /\ dl.pc = "idle"
    /\ dl.attempt < MaxAttempts
    /\ LET r == Create(dir, f, fault) IN
        /\ dir' = r.dir
        /\ last' = Done("create", f, NoRd, r.res)
        /\ dl' = IF r.res.kind = "ok"
                 THEN [pc |-> "staged", target |-> r.res.val[2],
                       attempt |-> dl.attempt + 1, written |-> 0]
                 ELSE [dl EXCEPT !.attempt = @ + 1]
    /\ UNCHANGED <<held, rs, cl>>

\* the downloader writes the next chunk to the temporary path, which it
\* opens for appending on the first write of the attempt
WriteOp ==
    /\ last = NoCall
    /\ dl.pc \in {"staged", "writing"}
    /\ dl.written < Chunks
    /\ LET tmp == TmpName(dl.target)
           old == IF tmp \in DOMAIN dir THEN dir[tmp] ELSE <<>>
       IN  /\ dl.pc = "writing" => tmp \in DOMAIN dir
           /\ dir' = WithFile(dir, tmp, Append(old, dl.attempt))
    /\ dl' = [dl EXCEPT !.pc = "writing", !.written = @ + 1]
    /\ UNCHANGED <<last, held, rs, cl>>

\* the download is complete: the temporary file is renamed to the final path
RenameOp ==
    /\ last = NoCall
    /\ dl.pc = "writing"
    /\ dl.written = Chunks
    /\ TmpName(dl.target) \in DOMAIN dir
    /\ dir' = WithFile(Without(dir, {TmpName(dl.target)}), dl.target, dir[TmpName(dl.target)])
    /\ dl' = [dl EXCEPT !.pc = "idle", !.target = <<>>, !.written = 0]
    /\ UNCHANGED <<last, held, rs, cl>>

\* the downloader is interrupted
CrashOp ==
    /\ last = NoCall
    /\ dl.pc # "idle"
    /\ dl' = [dl EXCEPT !.pc = "idle", !.target = <<>>, !.written = 0]
    /\ UNCHANGED <<dir, last, held, rs, cl>>

\* the caller of the manager takes the result and moves on
ReturnOp ==
    /\ last # NoCall
    /\ last' = NoCall
    /\ UNCHANGED <<dir, dl, held, rs, cl>>

\* one step of the directory iterator of a scan, lazy as read_dir is: the
\* next file that was in the directory when it was opened is yielded if it
\* is still there; one removed since is yielded from the buffer of the
\* listing (stale) or passed over. A mutant that removes what it reads:
IterNextConsumes(d, rdr, stale) ==
    LET n == Head(rdr.todo)
        yielded == n \in DOMAIN d \/ stale
    IN  [dir |-> Without(d, {n}),
         rdr |-> [rdr EXCEPT !.pc = IF Len(rdr.todo) = 1 THEN "done" ELSE "iter",
                             !.todo = Tail(rdr.todo),
                             !.acc = IF yielded THEN Append(@, [name |-> n, ok |-> TRUE]) ELSE @]]

\* the iterator that ends at the first file it finds removed
IterNextStopsAtGap(d, rdr, stale) ==
    LET n == Head(rdr.todo)
        gap == n \notin DOMAIN d
    IN  [dir |-> d,
         rdr |-> [rdr EXCEPT !.pc = IF gap \/ Len(rdr.todo) = 1 THEN "done" ELSE "iter",
                             !.todo = IF gap THEN <<>> ELSE Tail(rdr.todo),
                             !.acc = IF gap THEN @ ELSE Append(@, [name |-> n, ok |-> TRUE])]]

\* the iterator of get_all
IterNext(d, rdr, stale) ==
    LET n == Head(rdr.todo)
        yielded == n \in DOMAIN d \/ stale
    IN  [dir |-> d,
         rdr |-> [rdr EXCEPT !.pc = IF Len(rdr.todo) = 1 THEN "done" ELSE "iter",
                             !.todo = Tail(rdr.todo),
                             !.acc = IF yielded THEN Append(@, [name |-> n, ok |-> TRUE]) ELSE @]]

\* what the scan of reader record rdr returns once its iterator is
\* exhausted: get_all or get over what the iterator yielded
ScanResult(rdr) ==
    LET rd == [ok |-> TRUE, items |-> rdr.acc] IN
    IF rdr.op = "get_all" THEN GetAll(rd) ELSE Get(rd, rdr.arg)

\* reader r starts a scan: read_dir opens the directory
OpenOp(r, call) ==
    /\ rs[r].pc = "idle"
    /\ rs' = [rs EXCEPT ![r] =
                [pc |-> IF DOMAIN dir = {} THEN "done" ELSE "iter",
                 op |-> call.op, arg |-> call.arg, pre |-> dir,
                 todo |-> Ascending(DOMAIN dir), acc |-> <<>>]]
    /\ UNCHANGED <<dir, dl, last, held, cl>>

\* the scan of reader r takes the next directory entry
ReadNextOp(r, stale) ==
    /\ rs[r].pc = "iter"
    /\ LET o == IterNext(dir, rs[r], stale) IN
        /\ dir' = o.dir
        /\ rs' = [rs EXCEPT ![r] = o.rdr]
    /\ UNCHANGED <<dl, last, held, cl>>

\* a clean(p) of another process starts: its get(p) lists the directory
CleanStartOp(p) ==
    /\ cl.pc = "idle"
    /\ LET got == Get(FullListing(dir), p) IN
        cl' = [pc |-> IF got.val = <<>> THEN "done" ELSE "removing",
               arg |-> p, pre |-> dir, items |-> got.val, next |-> 1]
    /\ UNCHANGED <<dir, dl, last, held, rs>>

\* that clean removes the file of its next item
CleanStepOp ==
    /\ cl.pc = "removing"
    /\ dir' = RemoveEach(dir, SubSeq(cl.items, cl.next, cl.next), 0).dir
    /\ cl' = [cl EXCEPT !.pc = IF cl.next = Len(cl.items) THEN "done" ELSE "removing",
                        !.next = @ + 1]
    /\ UNCHANGED <<dl, last, held, rs>>

\* the caller of a scan keeps one of the entries it was handed
KeepOp(e) ==
    /\ last.op = "get_all"
    /\ last.res.kind = "ok"
    /\ e \in Range(last.res.val)
    /\ held' = [e |-> e, len |-> Len(dir[e.entry])]
    /\ last' = NoCall
    /\ UNCHANGED <<dir, dl, rs, cl>>

\* byte_size() of the kept entry
SizeOp(platform) ==
    /\ last = NoCall
    /\ held # NoEntry
    /\ last' = Done("size", held.e.entry, NoRd, Size(dir, held, platform))
    /\ UNCHANGED <<dir, dl, held, rs, cl>>

----------------------------------------------------------------------------
(* Specifications *)

\* the manager and one downloader on a directory that starts with some
\* leftovers of earlier runs
Init ==
    /\ dir \in Dirs(SeedNames, MaxSeedFiles)
    /\ dl = Idle
    /\ last = NoCall
    /\ held = NoEntry
    /\ rs = [r \in Readers |-> IdleReader]
    /\ cl = IdleCleaner

\* the listings the stateful specification draws: rank order, few errors
SomeListings(d) == ReadDirs(d, {Ascending(DOMAIN d)}, MaxListErrors)

Next ==
    \/ \E rd \in SomeListings(dir) : ScanAllOp(rd)
    \/ \E p \in CleanPatterns, rd \in SomeListings(dir) : GetOp(p, rd)
    \/ \E p \in CleanPatterns, rd \in SomeListings(dir) :
           \E failAt \in 0..Len(Get(rd, p).val) :
               CleanOp(p, rd, failAt, [ok |-> TRUE, gone |-> DOMAIN dir])
    \/ \E rd \in SomeListings(dir), out \in EmptyDirOutcomes(dir) :
           CleanOp(<<"*">>, rd, 0, out)
    \/ \E f \in StageNames, fault \in {"none", "final", "tmp"} : StageOp(f, fault)
    \/ WriteOp
    \/ RenameOp
    \/ CrashOp
    \/ ReturnOp

Spec == Init /\ [][Next]_vars

\* the scans and the constructor on every directory drawn from ScanNames
InitScan ==
    /\ dir \in Dirs(ScanNames, MaxScanFiles)
    /\ dl = Idle
    /\ last = NoCall
    /\ held = NoEntry
    /\ rs = [r \in Readers |-> IdleReader]
    /\ cl = IdleCleaner

\* every listing of d: any order, any entries failing
AllListings(d) == ReadDirs(d, Perms(DOMAIN d), Cardinality(DOMAIN d))

NextScan ==
    \/ \E rd \in AllListings(dir) : ScanAllOp(rd)
    \/ \E p \in ScanPatterns, rd \in AllListings(dir) : GetOp(p, rd)
    \/ \E n \in DOMAIN dir : NewOp(n)
    \/ ReturnOp

SpecScan == InitScan /\ [][NextScan]_vars

\* a caller that keeps an entry of a scan and asks for its size later,
\* after cleans and stagings
NextHeld ==
    \/ \E rd \in SomeListings(dir) : ScanAllOp(rd)
    \/ \E e \in Range(last.res.val) : KeepOp(e)
    \/ \E p \in CleanPatterns, rd \in SomeListings(dir) :
           CleanOp(p, rd, 0, [ok |-> TRUE, gone |-> DOMAIN dir])
    \/ \E f \in StageNames : StageOp(f, "none")
    \/ \E platform \in Platforms : SizeOp(platform)
    \/ ReturnOp

SpecHeld == Init /\ [][NextHeld]_vars

\* scans of two readers and a clean of a third process, interleaved step
\* by step on one directory
InitConc ==
    /\ dir \in Dirs(ConcNames, MaxConcFiles)
    /\ dl = Idle
    /\ last = NoCall
    /\ held = NoEntry
    /\ rs = [r \in Readers |-> IdleReader]
    /\ cl = IdleCleaner

NextConc ==
    \/ \E r \in Readers, call \in ReaderCalls : OpenOp(r, call)
    \/ \E r \in Readers, stale \in BOOLEAN : ReadNextOp(r, stale)
    \/ \E p \in ConcPatterns : CleanStartOp(p)
    \/ CleanStepOp

SpecConc == InitConc /\ [][NextConc]_vars

----------------------------------------------------------------------------
(* Vocabulary of the properties *)

\* the character class [A-Za-z0-9._-]
NameChar(c) == AlphaNum(c) \/ c \in {".", "_", "-"}

\* s is  <name>#<version>#<rest>  with the separators at i and j, name and
\* version non-empty strings over the character class
HasForm(s, i, j) ==
    /\ i \in 2..Len(s)
    /\ j \in (i + 2)..Len(s)
    /\ s[i] = "#"
    /\ s[j] = "#"
    /\ \A k \in 1..(i - 1) : NameChar(s[k])
    /\ \A k \in (i + 1)..(j - 1) : NameChar(s[k])

WellFormed(s) == \E i \in 1..Len(s) : \E j \in 1..Len(s) : HasForm(s, i, j)

\* p is a prefix of s, character for character
IsPrefix(p, s) == Len(p) <= Len(s) /\ SubSeq(s, 1, Len(p)) = p

\* the positions of '#' in s
Hashes(s) == {i \in 1..Len(s) : s[i] = "#"}

\* the entries the call that has just returned handed to its caller
Returned ==
    IF last.res.kind # "ok" THEN {}
    ELSE IF last.op = "new" THEN {last.res.val}
    ELSE IF last.op \in {"get", "get_all"} THEN Range(last.res.val)
    ELSE {}

\* the entries scan_all finds in d when every file is listed
EntriesOf(d) == Range(GetAll(FullListing(d)).val)

\* the entries of sequence es whose package name starts with p
WithPrefix(es, p) == SelectSeq(es, LAMBDA e : IsPrefix(p, e.app_name))

----------------------------------------------------------------------------
(* Properties of the scans and of the constructor (SpecScan) *)

\* C3: every entry scan_all returns has the file name
\* package_name#version#descriptor, no field holds '#', and package_name and
\* version are non-empty strings over [A-Za-z0-9._-].
C3_NamingInvariant ==
    last.op = "get_all" =>
        \A e \in Returned :
            /\ e.entry = e.app_name \o <<"#">> \o e.version \o <<"#">> \o e.file_name
            /\ "#" \notin Range(e.app_name) \cup Range(e.version) \cup Range(e.file_name)
            /\ e.app_name # <<>> /\ \A k \in 1..Len(e.app_name) : NameChar(e.app_name[k])
            /\ e.version # <<>> /\ \A k \in 1..Len(e.version) : NameChar(e.version[k])

\* C4: scan_all on a readable directory returns an entry for every listed
\* file whose name is <name>#<version>#<rest> with name and version
\* non-empty over [A-Za-z0-9._-], the underscore included for both (checked
\* where every listed name is Unicode).
C4_ScanComplete ==
    (last.op = "get_all" /\ last.rd.ok
        /\ \A k \in 1..Len(last.rd.items) : IsUnicode(last.rd.items[k].name)) =>
        /\ last.res.kind = "ok"
        /\ \A k \in 1..Len(last.rd.items) :
              (last.rd.items[k].ok /\ WellFormed(last.rd.items[k].name)) =>
                  \E e \in Returned : e.entry = last.rd.items[k].name

\* C5: a CacheEntry constructed from a file name <name>#<version>#<rest>,
\* name and version over the character class, has package_name = name and
\* version = version; the construction succeeds.
C5_NameAndVersion ==
    /\ \A e \in Returned : \A i \in 1..Len(e.entry) : \A j \in 1..Len(e.entry) :
          HasForm(e.entry, i, j) =>
              /\ e.app_name = SubSeq(e.entry, 1, i - 1)
              /\ e.version = SubSeq(e.entry, i + 1, j - 1)
    /\ (last.op = "new" /\ WellFormed(last.arg)) => last.res.kind = "ok"

\* C5 witness: the constructor has run on a well-formed name the scan's
\* pattern rejects or whose rest holds a further '#'.
C5_Witness ==
    /\ last.op = "new"
    /\ WellFormed(last.arg)
    /\ last.res.kind = "ok"
    /\ (~IsMatch(last.arg) \/ Cardinality(Hashes(last.arg)) > 2)

\* C6: the descriptor of a constructed entry is everything in the file name
\* after the second '#'.
C6_DescriptorIsRest ==
    \A e \in Returned : \A j \in Hashes(e.entry) :
        Cardinality({i \in Hashes(e.entry) : i < j}) = 1 =>
            e.file_name = SubSeq(e.entry, j + 1, Len(e.entry))

\* C7: for a prefix p that does not end in '*', scan_filtered(p) returns
\* exactly the entries of scan_all whose package_name starts with p, and
\* scan_filtered(p*) returns the same; when the scan fails, so do both.
C7_PrefixFilter ==
    last.op = "get" =>
        LET all == GetAll(last.rd)
            p == last.arg
            q == SubSeq(p, 1, Len(p) - 1)
            expect(x) == IF all.kind = "ok" THEN Ok(WithPrefix(all.val, x)) ELSE all
        IN  /\ ~EndsWith(p, "*") => last.res = expect(p)
            /\ (EndsWith(p, "*") /\ ~EndsWith(q, "*")) => last.res = expect(q)

\* C7 witness: scan_filtered(p*) for a non-empty p has returned some of the
\* entries of scan_all and left some out.
C7_Witness ==
    /\ last.op = "get"
    /\ Len(last.arg) > 1
    /\ EndsWith(last.arg, "*")
    /\ last.res.kind = "ok"
    /\ last.res.val # <<>>
    /\ Len(last.res.val) < Len(GetAll(last.rd).val)

\* C8: scan_filtered("*") returns what scan_all returns on the same
\* listing, the error included.
C8_StarIsScanAll ==
    (last.op = "get" /\ last.arg = <<"*">>) => last.res = GetAll(last.rd)

\* C8 witness: scan_filtered("*") has returned entries while the directory
\* holds a file that is no entry.
C8_Witness ==
    /\ last.op = "get"
    /\ last.arg = <<"*">>
    /\ last.res.kind = "ok"
    /\ last.res.val # <<>>
    /\ \E n \in DOMAIN dir : ~IsMatch(n)

\* C8 witness of the error: scan_filtered("*") on an unreadable directory.
C8_ErrorReached ==
    /\ last.op = "get"
    /\ last.arg = <<"*">>
    /\ last.res.kind = "err"

\* C16: on one listing of the directory, every entry scan_filtered(q)
\* returns for a pattern q other than "" and "*" is among the entries
\* scan_filtered("") returns and among those scan_filtered("*") returns.
C16_EmptyAndStarAreSupersets ==
    (last.op = "get" /\ last.arg \notin {<<>>, <<"*">>} /\ last.res.kind = "ok") =>
        LET empty == Get(last.rd, <<>>)
            star == Get(last.rd, <<"*">>)
        IN  /\ empty.kind = "ok"
            /\ star.kind = "ok"
            /\ Range(last.res.val) \subseteq Range(empty.val)
            /\ Range(last.res.val) \subseteq Range(star.val)

\* C16 witness: scan_filtered(q) for a non-empty q without '*' has returned
\* some entries, fewer than scan_filtered("") returns on the same listing.
C16_Witness ==
    /\ last.op = "get"
    /\ last.arg # <<>>
    /\ "*" \notin Range(last.arg)
    /\ last.res.kind = "ok"
    /\ last.res.val # <<>>
    /\ Len(last.res.val) < Len(Get(last.rd, <<>>).val)

\* C18: whatever the directory holds, every file name a scan hands to the
\* constructor of CacheEntry holds at least two '#', the constructor
\* succeeds on it, and no scan of a readable directory of Unicode names
\* ends in the constructor's panic.
C18_ConstructorPreconditionHolds ==
    last.op \in {"get", "get_all"} =>
        /\ \A k \in 1..Len(last.rd.items) :
              (last.rd.items[k].ok /\ IsMatch(last.rd.items[k].name)) =>
                  /\ Cardinality(Hashes(last.rd.items[k].name)) >= 2
                  /\ IsUnicode(last.rd.items[k].name) =>
                        CacheEntryNew(last.rd.items[k].name).kind = "ok"
        /\ (last.rd.ok /\ \A k \in 1..Len(last.rd.items) : IsUnicode(last.rd.items[k].name)) =>
              last.res.kind = "ok"

\* C18 witness: a scan has returned entries from a listing that also holds
\* a name with one '#', which it did not hand to the constructor.
C18_Witness ==
    /\ last.op \in {"get", "get_all"}
    /\ last.res.kind = "ok"
    /\ last.res.val # <<>>
    /\ \E k \in 1..Len(last.rd.items) :
          /\ last.rd.items[k].ok
          /\ Cardinality(Hashes(last.rd.items[k].name)) = 1
          /\ \A e \in Returned : e.entry # last.rd.items[k].name

C19_LeadingStarLiteral ==
    /\ last.op = "get"
    /\ last.arg = <<"*", "a">>
    /\ last.res = Ok(<<>>)
    /\ \E e \in Range(GetAll(last.rd).val) : "a" \in Range(e.app_name)

\* C14: scan_all returns an I/O error when the directory cannot be read and
\* in no other case: on a readable directory, whatever the file names and
\* whichever entries fail to be listed, it succeeds and returns entries of
\* listed files only.
C14_ScanFailsOnlyOnUnreadableDir ==
    last.op = "get_all" =>
        /\ ~last.rd.ok => last.res = IoErr
        /\ last.rd.ok =>
              /\ last.res.kind = "ok"
              /\ \A e \in Returned : \E k \in 1..Len(last.rd.items) :
                    last.rd.items[k].ok /\ last.rd.items[k].name = e.entry

----------------------------------------------------------------------------
(* Properties of staging and cleaning (Spec) *)

\* C1: with a downloader that calls stage_path, writes to the temporary
\* path and renames it to the final path only when the download is
\* complete, interrupted and restarted at will, a file at a final path is
\* always a complete download, and never one that an attempt in progress
\* for that path did not write.
C1_CrashSafeStaging ==
    \A f \in StageNames :
        /\ f \in DOMAIN dir => Complete(dir[f])
        /\ (dl.pc # "idle" /\ dl.target = f) => f \notin DOMAIN dir

\* C1 witness: the second attempt has put a complete download at its final
\* path while the partial file of the interrupted first attempt, for the
\* other name, is still at its temporary path.
C1_Witness ==
    \E f \in StageNames : \E g \in StageNames \ {f} :
        /\ f \in DOMAIN dir
        /\ dir[f] = [i \in 1..Chunks |-> 2]
        /\ TmpName(g) \in DOMAIN dir
        /\ dir[TmpName(g)] = <<1>>

\* C2: when stage_path(filename) returns, it returns working_dir/filename,
\* no file is at that path nor at that path with ".download" appended, and
\* every other file of the directory is as it was.
C2_StagePath ==
    (last.op = "create" /\ last.res.kind = "ok") =>
        /\ last.res.val = <<WorkingDir, last.arg>>
        /\ last.arg \notin DOMAIN dir
        /\ (last.arg \o DownloadSuffix) \notin DOMAIN dir
        /\ DOMAIN dir = (DOMAIN last.pre) \ {last.arg, last.arg \o DownloadSuffix}
        /\ \A n \in DOMAIN dir : dir[n] = last.pre[n]

\* C2 witness: stage_path has returned where a file was at the final path,
\* one at the temporary path, and a third file beside them.
C2_Witness ==
    /\ last.op = "create"
    /\ last.res.kind = "ok"
    /\ last.arg \in DOMAIN last.pre
    /\ (last.arg \o DownloadSuffix) \in DOMAIN last.pre
    /\ DOMAIN dir # {}

\* C9: after a successful clean("*") the working directory holds nothing,
\* whatever it held, and scan_all on it returns the empty sequence.
C9_CleanStarEmpties ==
    (last.op = "clean" /\ last.arg = <<"*">> /\ last.res.kind = "ok") =>
        /\ dir = NoFiles
        /\ \A rd \in AllListings(dir) : rd.ok => GetAll(rd) = Ok(<<>>)

\* C9 witness: clean("*") has succeeded on a directory that held a cache
\* entry and a file that is none.
C9_Witness ==
    /\ last.op = "clean"
    /\ last.arg = <<"*">>
    /\ last.res.kind = "ok"
    /\ \E n \in DOMAIN last.pre : IsMatch(n)
    /\ \E n \in DOMAIN last.pre : ~IsMatch(n)

\* C10: a successful clean(p), p other than "*", removes the files of the
\* entries scan_filtered(p) returned on the directory as it was and nothing
\* else: scan_all holds none of them afterwards and every other entry it
\* held before, and the files that are no entries are untouched.
C10_CleanFiltered ==
    (last.op = "clean" /\ last.arg # <<"*">> /\ last.res.kind = "ok") =>
        LET got == Get(last.rd, last.arg)
            gone == {e.entry : e \in Range(got.val)}
        IN  /\ got.kind = "ok"
            /\ DOMAIN dir = (DOMAIN last.pre) \ gone
            /\ \A n \in DOMAIN dir : dir[n] = last.pre[n]
            /\ EntriesOf(dir) = EntriesOf(last.pre) \ Range(got.val)
            /\ \A n \in DOMAIN last.pre : ~IsMatch(n) => n \in DOMAIN dir

\* C10 witness: clean("") or clean("**") has removed entries and left a
\* file that is no entry in place.
C10_Witness ==
    /\ last.op = "clean"
    /\ last.arg \in {<<>>, <<"*", "*">>}
    /\ last.res.kind = "ok"
    /\ DOMAIN dir # DOMAIN last.pre
    /\ \E n \in DOMAIN dir : ~IsMatch(n)

\* C10, a selective pattern: clean(p) has removed an entry and left
\* another entry in place.
C10_SelectiveReached ==
    /\ last.op = "clean"
    /\ last.arg # <<"*">>
    /\ last.res.kind = "ok"
    /\ DOMAIN dir # DOMAIN last.pre
    /\ \E n \in DOMAIN dir : IsMatch(n) /\ last.rd.ok
    /\ \A k \in 1..Len(last.rd.items) : last.rd.items[k].ok

\* C11: when a removal fails in clean(p), p other than "*", the call returns
\* the error, the entries before the failing one in scan order are removed
\* and stay removed, the failing one and every matched entry after it are
\* still present, and nothing else has changed; when the scan of clean
\* fails, nothing is removed.
C11_CleanAbortsOnFirstError ==
    (last.op = "clean" /\ last.arg # <<"*">> /\ last.res.kind # "ok") =>
        LET got == Get(last.rd, last.arg) IN
        /\ last.res = IoErr
        /\ got.kind # "ok" => dir = last.pre
        /\ got.kind = "ok" =>
              \E k \in 1..Len(got.val) :
                  /\ DOMAIN dir = (DOMAIN last.pre) \ {got.val[i].entry : i \in 1..(k - 1)}
                  /\ \A i \in k..Len(got.val) : got.val[i].entry \in DOMAIN dir
                  /\ \A n \in DOMAIN dir : dir[n] = last.pre[n]

\* C11 witness: clean(p) has failed after removing an entry, and two of the
\* entries it matched, the failing one and a later one, are still present.
C11_Witness ==
    /\ last.op = "clean"
    /\ last.arg # <<"*">>
    /\ last.res.kind = "err"
    /\ Get(last.rd, last.arg).kind = "ok"
    /\ DOMAIN dir # DOMAIN last.pre
    /\ Cardinality({e \in Range(Get(last.rd, last.arg).val) : e.entry \in DOMAIN dir}) >= 2

\* C12: when stage_path finds a stale file at the final or the temporary
\* path and cannot delete it, the call returns an I/O error to its caller;
\* it returns a path only when neither file is in place.
C12_DeleteFailureIsIoError ==
    last.op = "create" =>
        /\ last.res.kind \in {"ok", "err"}
        /\ last.res.kind = "ok" =>
              /\ last.arg \notin DOMAIN dir
              /\ TmpName(last.arg) \notin DOMAIN dir

----------------------------------------------------------------------------
(* Properties of a kept entry (SpecHeld) *)

\* C13: byte_size() of an entry whose file was deleted after the scan that
\* produced it returns an I/O error to the caller, while package_name(),
\* version() and descriptor() return what the constructor parsed.
C13_SizeOfDeletedIsIoError ==
    (last.op = "size" /\ held.e.entry \notin DOMAIN dir) =>
        /\ last.res = IoErr
        /\ LET parsed == CacheEntryNew(held.e.entry).val
           IN  Accessors(held) = <<parsed.app_name, parsed.version, parsed.file_name>>

----------------------------------------------------------------------------
(* Properties of interleaved scans and clean (SpecConc) *)

\* C15: scans change nothing in the directory: while no clean has started,
\* the directory is as each scan found it, however the steps of the scans
\* of several readers interleave, and every scan that has finished returns
\* what scan_all or scan_filtered returns when it runs alone on that
\* directory.
C15_ScansAreReadOnly ==
    cl.pc = "idle" =>
        \A r \in Readers :
            /\ rs[r].pc # "idle" => dir = rs[r].pre
            /\ rs[r].pc = "done" =>
                  ScanResult(rs[r]) = (IF rs[r].op = "get_all"
                                       THEN GetAll(FullListing(rs[r].pre))
                                       ELSE Get(FullListing(rs[r].pre), rs[r].arg))

\* C15 witness: both readers have finished, one a scan_all and one a
\* scan_filtered, on a directory with an entry the filter leaves out, and
\* no clean has run.
C15_Witness ==
    /\ cl.pc = "idle"
    /\ rs["r1"].pc = "done" /\ rs["r1"].op = "get_all"
    /\ rs["r2"].pc = "done" /\ rs["r2"].op = "get"
    /\ Len(ScanResult(rs["r2"]).val) >= 1
    /\ Len(ScanResult(rs["r1"]).val) > Len(ScanResult(rs["r2"]).val)

\* C20: a scan_all whose steps interleave with those of a clean(p) of
\* another process returns only entries the directory held when the clean
\* started, and among them every entry whose package_name does not start
\* with p; of the entries p matches it may return any part.
C20_TornViewIsBounded ==
    \A r \in Readers :
        (rs[r].pc = "done" /\ rs[r].op = "get_all" /\ cl.pc # "idle") =>
            LET res == ScanResult(rs[r])
                before == EntriesOf(cl.pre)
            IN  /\ res.kind = "ok"
                /\ Range(res.val) \subseteq before
                /\ \A e \in before : ~IsPrefix(cl.arg, e.app_name) => e \in Range(res.val)

\* C20 witness, the torn view: clean(p) matched two entries or more, and a
\* scan_all has returned one of them, not another, and an entry p does not
\* match.
C20_Witness ==
    \E r \in Readers :
        /\ rs[r].pc = "done"
        /\ rs[r].op = "get_all"
        /\ Len(cl.items) >= 2
        /\ \E e \in Range(cl.items) : e \in Range(ScanResult(rs[r]).val)
        /\ \E e \in Range(cl.items) : e \notin Range(ScanResult(rs[r]).val)
        /\ \E e \in Range(ScanResult(rs[r]).val) : e \notin Range(cl.items)

----------------------------------------------------------------------------
(* Properties of staging and the scans together (Spec) *)

\* C17: no entry a scan returns is the temporary file of a download: after
\* stage_path(f), a partial write to the temporary path of f and an
\* interruption, scan_all and scan_filtered do not list the leftover file.
C17_NoTemporaryListed ==
    last.op \in {"get", "get_all"} =>
        \A e \in Returned : \A f \in StageNames :
            ~ /\ e.entry = TmpName(f)
              /\ e.entry \in DOMAIN dir
              /\ dl.pc = "idle"
              /\ ~Complete(dir[e.entry])
              /\ \E i \in 1..Len(dir[e.entry]) : dir[e.entry][i] >= 1

====
